---- MODULE Spec2Model ----
(***************************************************************************)
(* A model of starterpack/build.py: archive extraction with wrapper        *)
(* stripping (unzip_to), the additive tree merge (overwrite_dir), the      *)
(* pruning of a pack directory (rough_simplify), the keybinding parser and *)
(* block merge (_keybinds_serialiser, make_keybindings), the template fill *)
(* (_contents) and the ordered build (build_all).                          *)
(*                                                                         *)
(* A path is a sequence of segments; a file system tree is a function from *)
(* the paths that exist to a directory node or to a file node.             *)
(* Each component has its own variables and its own specification; the     *)
(* variables of the other components stay at their idle values.            *)
(***************************************************************************)
EXTENDS Integers, Sequences, FiniteSets, TLC

\* ------------------------------------------------------------------ bounds
MaxDepth == 3
MaxEntries == 2
MaxVanLines == 4
MaxCfgLines == 2
MaxTemplate == 4
MaxTreeNodes == 3
NumOther == 1
MaxRuns == 2
MaxDay == 2

VARIABLES
    zkind,      \* unzip_to: what `filename` is: "zip", "exe", "other", "badzip"
    zarchive,   \* unzip_to: zf.namelist(), each name a sequence of segments
    contents,   \* unzip_to: the list `contents` of <<obj, name>> pairs
    widx,       \* unzip_to: index into contents of the next entry to write
    target,     \* unzip_to: the tree below target_dir
    upc,        \* unzip_to: "start", "strip", "write", "done", "error"
    vanFile,    \* make_keybindings: the lines of data/init/interface.txt
    cfgFile,    \* make_keybindings: the lines of the profile under base/keybindings
    vanbinds,   \* make_keybindings: the parsed vanilla bindings
    cfg,        \* make_keybindings: the parsed profile
    kbLines,    \* make_keybindings: the list `lines` built for the profile
    kbOut,      \* make_keybindings: the lines of the file written for the profile
    kpc,        \* make_keybindings: "start", "profiles", "done"
    kwargs,     \* _contents: the keys of `kwargs` in insertion order
    template,   \* _contents: the text of base contents.txt, as tokens
    cfile,      \* _contents: LNP/about/contents.txt, absent or its text
    cfile0,     \* _contents: that file before the call
    cerr,       \* _contents: the item the raised ValueError names, if any
    cpc,        \* _contents: "start", "done", "error"
    msrc,       \* overwrite_dir: the tree below src
    mdest,      \* overwrite_dir: the tree below dest
    mdest0,     \* overwrite_dir: the tree below dest before the call
    mstack,     \* overwrite_dir: the relative paths of the pending calls
    mpc,        \* overwrite_dir: "run", "done", "error"
    sdir,       \* rough_simplify: the tree below df_dir
    sdir0,      \* rough_simplify: that tree before the call
    spending,   \* rough_simplify: the listed names not yet visited
    spc,        \* rough_simplify: "start", "loop", "done"
    tree,       \* build_all: what each area of build/ holds
    tree0,      \* build_all: what build/ held before the first run
    tree1,      \* build_all: what build/ held when the previous run ended
    day,        \* build_all: datetime.date.today()
    aday,       \* build_all: the date create_about read in this run, 0 if none
    aday1,      \* build_all: the date create_about read in the previous run
    failAt,     \* build_all: the step whose input makes it raise, 0 if none
    bpc,        \* build_all: the index of the next step to start
    started,    \* build_all: the steps started in this run, in order
    bstatus,    \* build_all: "running", "done", "aborted"
    run         \* build_all: the number of this run

unzipVars == <<zkind, zarchive, contents, widx, target, upc>>
keyVars == <<vanFile, cfgFile, vanbinds, cfg, kbLines, kbOut, kpc>>
contVars == <<kwargs, template, cfile, cfile0, cerr, cpc>>
mergeVars == <<msrc, mdest, mdest0, mstack, mpc>>
simpVars == <<sdir, sdir0, spending, spc>>
buildVars ==
    <<tree, tree0, tree1, day, aday, aday1, failAt, bpc, started, bstatus, run>>
vars == <<unzipVars, keyVars, contVars, mergeVars, simpVars, buildVars>>

unzipOthers == <<keyVars, contVars, mergeVars, simpVars, buildVars>>
keyOthers == <<unzipVars, contVars, mergeVars, simpVars, buildVars>>
contOthers == <<unzipVars, keyVars, mergeVars, simpVars, buildVars>>
mergeOthers == <<unzipVars, keyVars, contVars, simpVars, buildVars>>
simpOthers == <<unzipVars, keyVars, contVars, mergeVars, buildVars>>
buildOthers == <<unzipVars, keyVars, contVars, mergeVars, simpVars>>

\* The values a component's variables keep while another component runs.
IdleUnzip ==
    /\ zkind = "zip" /\ zarchive = <<>> /\ contents = <<>> /\ widx = 1
    /\ target = <<>> /\ upc = "idle"
IdleKeys ==
    /\ vanFile = <<>> /\ cfgFile = <<>> /\ vanbinds = <<>> /\ cfg = <<>>
    /\ kbLines = <<>> /\ kbOut = <<>> /\ kpc = "idle"
IdleCont ==
    /\ kwargs = <<>> /\ template = <<>> /\ cfile = <<>> /\ cfile0 = <<>>
    /\ cerr = "None" /\ cpc = "idle"
IdleMerge ==
    /\ msrc = <<>> /\ mdest = <<>> /\ mdest0 = <<>> /\ mstack = <<>>
    /\ mpc = "idle"
IdleSimp ==
    /\ sdir = <<>> /\ sdir0 = <<>> /\ spending = {} /\ spc = "idle"
IdleBuild ==
    /\ tree = <<>> /\ tree0 = <<>> /\ tree1 = <<>> /\ day = 0 /\ aday = 0
    /\ aday1 = 0 /\ failAt = 0 /\ bpc = 0 /\ started = <<>>
    /\ bstatus = "idle" /\ run = 0

\* ------------------------------------------------------- paths and trees
SeqsUpTo(S, n) == UNION {[1..k -> S] : k \in 0..n}
NonEmptySeqsUpTo(S, n) == UNION {[1..k -> S] : k \in 1..n}

\* What a tree holds at a path: a directory, or a file with its content.
DirNode == <<"dir">>
FileNode(c) == <<"file", c>>

EmptyTree == [q \in {} |-> DirNode]

Front(p) == SubSeq(p, 1, Len(p) - 1)

Prefixes(p) == {SubSeq(p, 1, k) : k \in 1..Len(p)}

\* os.path.isdir: the root of a tree is the directory the tree hangs under.
IsDir(t, p) == p = <<>> \/ (p \in DOMAIN t /\ t[p] = DirNode)

IsFileAt(t, p) == p \in DOMAIN t /\ t[p] # DirNode

\* os.makedirs(p) succeeds unless a component of p is a file.
MakedirsOk(t, p) == \A q \in Prefixes(p) : ~IsFileAt(t, q)

Makedirs(t, p) ==
    [q \in DOMAIN t \cup Prefixes(p) |-> IF q \in DOMAIN t THEN t[q] ELSE DirNode]

\* open(p, 'w') then write: creates or replaces the file at p.
PutFile(t, p, v) ==
    [q \in DOMAIN t \cup {p} |-> IF q = p THEN FileNode(v) ELSE t[q]]

\* ---------------------------------------------------------------- unzip_to
Seg == {"x", "y"}

\* A name of the archive: "x/y/x" is <<"x","y","x">>; a directory entry
\* ends with '/', that is with an empty last segment.
FileNames == NonEmptySeqsUpTo(Seg, MaxDepth)
DirNames == {Append(n, "") : n \in NonEmptySeqsUpTo(Seg, MaxDepth - 1)}
Archives == SeqsUpTo(FileNames \cup DirNames, MaxEntries)
ZKinds == {"zip", "exe", "other", "badzip"}

EndsWithSlash(n) == n[Len(n)] = ""

\* n.partition('/')[0]
First(n) == n[1]

\* n.partition('/')[-1]: the text after the first '/', '' when there is none.
RestLast(n) == <<n[Len(n)]>>
Rest(n) == IF Len(n) = 1 THEN <<"">> ELSE Tail(n)

FirstSegs(c) == {First(c[i][2]) : i \in 1..Len(c)}

\* The loop condition of the strip loop with its break.
StripContinuesDeep(c) ==
    /\ Cardinality(FirstSegs(c)) = 1
    /\ ~(Len(c) = 1 /\ Len(c[1][2]) = 1)
StripContinues(c) ==
    /\ Cardinality(FirstSegs(c)) = 1
    /\ Len(c) # 1

StripAll(c) == [i \in 1..Len(c) |-> <<c[i][1], Rest(c[i][2])>>]

\* [a for a in zip(zf.infolist(), zf.namelist()) if not a[1].endswith('/')]
RECURSIVE FilterFiles(_, _)
FilterFiles(names, i) ==
    IF i > Len(names) THEN <<>>
    ELSE IF EndsWithSlash(names[i]) THEN FilterFiles(names, i + 1)
    ELSE <<<<i, names[i]>>>> \o FilterFiles(names, i + 1)

ExeName == <<"setup.exe">>

InitUnzip ==
    /\ zkind \in ZKinds
    /\ zarchive \in (IF zkind = "zip" THEN Archives ELSE {<<>>})
    /\ contents = <<>>
    /\ widx = 1
    /\ target = EmptyTree
    /\ upc = "start"
    /\ IdleKeys /\ IdleCont /\ IdleMerge /\ IdleSimp /\ IdleBuild

\* A file that is no .zip: an .exe is copied, anything else is refused;
\* a .zip that is no zip file is refused.
UnzipNotZip ==
    /\ upc = "start"
    /\ zkind # "zip"
    /\ IF zkind = "exe"
       THEN target' = PutFile(target, ExeName, 0) /\ upc' = "done"
       ELSE target' = target /\ upc' = "error"
    /\ UNCHANGED <<zkind, zarchive, contents, widx>>
    /\ UNCHANGED unzipOthers

UnzipOpen ==
    /\ upc = "start"
    /\ zkind = "zip"
    /\ contents' = FilterFiles(zarchive, 1)
    /\ upc' = "strip"
    /\ UNCHANGED <<zkind, zarchive, widx, target>>
    /\ UNCHANGED unzipOthers

StripRound ==
    /\ upc = "strip"
    /\ StripContinues(contents)
    /\ contents' = StripAll(contents)
    /\ UNCHANGED <<zkind, zarchive, widx, target, upc>>
    /\ UNCHANGED unzipOthers

StripExit ==
    /\ upc = "strip"
    /\ ~StripContinues(contents)
    /\ upc' = "write"
    /\ UNCHANGED <<zkind, zarchive, contents, widx, target>>
    /\ UNCHANGED unzipOthers

\* One iteration of the write loop. os.path.join(target_dir, '') is the
\* target directory itself, and opening a directory for writing fails.
WriteEntry ==
    /\ upc = "write"
    /\ widx <= Len(contents)
    /\ LET obj == contents[widx][1]
           name == contents[widx][2]
           dirn == Front(name)
           made == IF IsDir(target, dirn) THEN target ELSE Makedirs(target, dirn)
       IN  IF name = <<"">>
           THEN target' = target /\ upc' = "error" /\ widx' = widx
           ELSE IF ~IsDir(target, dirn) /\ ~MakedirsOk(target, dirn)
           THEN target' = target /\ upc' = "error" /\ widx' = widx
           ELSE IF IsDir(made, name)
           THEN target' = made /\ upc' = "error" /\ widx' = widx
           ELSE target' = PutFile(made, name, obj) /\ upc' = upc /\ widx' = widx + 1
    /\ UNCHANGED <<zkind, zarchive, contents>>
    /\ UNCHANGED unzipOthers

UnzipReturn ==
    /\ upc = "write"
    /\ widx > Len(contents)
    /\ upc' = "done"
    /\ UNCHANGED <<zkind, zarchive, contents, widx, target>>
    /\ UNCHANGED unzipOthers

NextUnzip ==
    \/ UnzipNotZip
    \/ UnzipOpen
    \/ StripRound
    \/ StripExit
    \/ WriteEntry
    \/ UnzipReturn

SpecUnzip == InitUnzip /\ [][NextUnzip]_vars

\* ------------------------------------------------------ unzip_to: claims
\* The non-directory entries of the archive, as <<obj, name>> pairs.
ArchiveFiles == FilterFiles(zarchive, 1)

FilesIn(t) == {p \in DOMAIN t : t[p] # DirNode}
DirsIn(t) == {p \in DOMAIN t : t[p] = DirNode}

IsPathPrefix(a, b) == Len(a) <= Len(b) /\ SubSeq(b, 1, Len(a)) = a

\* How many leading segments all the names share.
SharedLen(fs) ==
    LET n1 == fs[1][2]
        ks == {k \in 0..Len(n1) : \A i \in 1..Len(fs) :
                   Len(fs[i][2]) >= k /\ SubSeq(fs[i][2], 1, k) = SubSeq(n1, 1, k)}
    IN  CHOOSE k \in ks : \A j \in ks : j <= k

Drop(n, k) == SubSeq(n, k + 1, Len(n))

C2_Pre ==
    /\ zkind = "zip"
    /\ Len(ArchiveFiles) >= 2
    /\ \A i, j \in 1..Len(ArchiveFiles) :
          i # j => ~IsPathPrefix(ArchiveFiles[i][2], ArchiveFiles[j][2])

\* C2: for such an archive the extraction does not fail, every strip round
\* shortens the names, the loop ends with every segment shared by all the
\* entries removed and with two entries that differ in their first segment,
\* and on return the target holds exactly one file per entry, at the
\* entry's path without the shared segments, with that entry's content; an
\* archive of x/x/x and x/y/y yields exactly x/x and y/y.
C2_StripsSharedWrappers ==
    C2_Pre =>
      LET fs == ArchiveFiles
          k == SharedLen(fs)
          out == [i \in 1..Len(fs) |-> <<fs[i][1], Drop(fs[i][2], k)>>]
      IN  /\ upc # "error"
          /\ (upc = "strip" /\ StripContinues(contents))
                => StripAll(contents) # contents
          /\ upc \in {"write", "done"} =>
                /\ contents = out
                /\ Cardinality(FirstSegs(contents)) > 1
          /\ upc = "done" =>
                /\ FilesIn(target) = {out[i][2] : i \in 1..Len(fs)}
                /\ Cardinality(FilesIn(target)) = Len(fs)
                /\ \A i \in 1..Len(fs) : target[out[i][2]] = FileNode(fs[i][1])
                /\ \A d \in DirsIn(target) : \E f \in FilesIn(target) :
                      IsPathPrefix(d, f)
          /\ (upc = "done" /\ zarchive = <<<<"x", "x", "x">>, <<"x", "y", "y">>>>)
                => /\ FilesIn(target) = {<<"x", "x">>, <<"y", "y">>}
                   /\ DirsIn(target) = {<<"x">>, <<"y">>}

C2_Witness ==
    /\ upc = "done"
    /\ zarchive = <<<<"x", "x", "x">>, <<"x", "y", "y">>>>
    /\ C2_Pre
    /\ FilesIn(target) = {<<"x", "x">>, <<"y", "y">>}

\* C10: the strip loop terminates for every list of entry names. The loop
\* is deterministic in `contents`, and a round either shortens a name or
\* leaves every name as it is, so the loop runs forever exactly when it
\* enters a round that leaves `contents` unchanged: every round the loop
\* enters changes `contents`.
C10_StripLoopTerminates ==
    (upc = "strip" /\ StripContinues(contents)) => StripAll(contents) # contents

\* ------------------------------------------ _keybinds_serialiser, merge
\* A line is modelled by its stripped text; "" is a blank line.
Headers == {"[BIND:A]", "[BIND:B]"}
VanTokens == Headers \cup {"k1", "k2"}
CfgTokens == Headers \cup {"k3", ""}

\* line.startswith('[BIND:')
IsHeader(line) == line \in Headers

\* An OrderedDict is the sequence of its <<key, value>> pairs in insertion
\* order, with no key twice.
OdKeys(od) == {od[i][1] : i \in 1..Len(od)}
OdHas(od, k) == k \in OdKeys(od)
OdIndex(od, k) == CHOOSE i \in 1..Len(od) : od[i][1] = k
OdGet(od, k) == od[OdIndex(od, k)][2]

\* od[k] = v: a new key goes last, an old key keeps its place.
OdSetKeep(od, k, v) ==
    IF OdHas(od, k) THEN od ELSE Append(od, <<k, v>>)
OdSet(od, k, v) ==
    IF OdHas(od, k)
    THEN [od EXCEPT ![OdIndex(od, k)] = <<k, v>>]
    ELSE Append(od, <<k, v>>)

\* od[k].append(line)
OdAppend(od, k, line) ==
    [od EXCEPT ![OdIndex(od, k)] = <<k, Append(od[OdIndex(od, k)][2], line)>>]

None == "None"

\* The loop of _keybinds_serialiser from line i on, with od and lastkey.
RECURSIVE SerialiseFrom(_, _, _, _)
SerialiseFrom(lines, i, od, lastkey) ==
    IF i > Len(lines) THEN od
    ELSE LET line == lines[i]
         IN  IF line # "" /\ IsHeader(line)
             THEN SerialiseFrom(lines, i + 1, OdSet(od, line, <<>>), line)
             ELSE IF line # "" /\ lastkey # None
             THEN SerialiseFrom(lines, i + 1, OdAppend(od, lastkey, line), lastkey)
             ELSE SerialiseFrom(lines, i + 1, od, lastkey)

KeybindsSerialiser(lines) == SerialiseFrom(lines, 1, <<>>, None)

\* The lines that follow one header in the output: the profile's when the
\* profile has the header, the vanilla ones otherwise.
BlockValsTruthy(c, bind, vals) ==
    IF OdHas(c, bind) /\ OdGet(c, bind) # <<>> THEN OdGet(c, bind) ELSE vals
BlockVals(c, bind, vals) ==
    IF OdHas(c, bind) THEN OdGet(c, bind) ELSE vals

RECURSIVE MergeFrom(_, _, _)
MergeFrom(van, c, i) ==
    IF i > Len(van) THEN <<>>
    ELSE <<van[i][1]>> \o BlockVals(c, van[i][1], van[i][2])
            \o MergeFrom(van, c, i + 1)

\* f.write('\n' + '\n'.join(lines)): the file starts with an empty line.
WrittenLines(lines) == <<"">> \o lines

InitKeys ==
    /\ vanFile \in SeqsUpTo(VanTokens, MaxVanLines)
    /\ cfgFile \in SeqsUpTo(CfgTokens, MaxCfgLines)
    /\ vanbinds = <<>>
    /\ cfg = <<>>
    /\ kbLines = <<>>
    /\ kbOut = <<>>
    /\ kpc = "start"
    /\ IdleUnzip /\ IdleCont /\ IdleMerge /\ IdleSimp /\ IdleBuild

KbReadVanilla ==
    /\ kpc = "start"
    /\ vanbinds' = KeybindsSerialiser(vanFile)
    /\ kpc' = "profiles"
    /\ UNCHANGED <<vanFile, cfgFile, cfg, kbLines, kbOut>>
    /\ UNCHANGED keyOthers

KbWriteProfile ==
    /\ kpc = "profiles"
    /\ cfg' = KeybindsSerialiser(cfgFile)
    /\ kbLines' = MergeFrom(vanbinds, cfg', 1)
    /\ kbOut' = WrittenLines(kbLines')
    /\ kpc' = "done"
    /\ UNCHANGED <<vanFile, cfgFile, vanbinds>>
    /\ UNCHANGED keyOthers

NextKeys ==
    \/ KbReadVanilla
    \/ KbWriteProfile

SpecKeys == InitKeys /\ [][NextKeys]_vars

\* ------------------------------------------------ keybindings: claims
HeaderPositions(out) == {i \in 1..Len(out) : IsHeader(out[i])}

\* The position of the first header after position i, or one past the end.
NextHeader(out, i) ==
    LET later == {j \in HeaderPositions(out) : j > i}
    IN  IF later = {} THEN Len(out) + 1
        ELSE CHOOSE j \in later : \A m \in later : j <= m

NotBlank(line) == line # ""

\* The lines between position i and the next header, blank lines left out.
BlockAfter(out, i) ==
    SelectSeq(SubSeq(out, i + 1, NextHeader(out, i) - 1), NotBlank)

\* C3: the merge outputs the baseline headers in baseline order, each
\* once, each followed at once by the override's entries for it when the
\* override has the header (an empty list too) and by the baseline's own
\* otherwise; a header only the override has is not in the output; baseline
\* {A: [k1], B: [k2]} and override {A: [k3]} give A, k3, B, k2.
C3_BlockMerge ==
    kpc = "done" =>
      LET out == kbLines
          hp == HeaderPositions(out)
      IN  /\ SelectSeq(out, IsHeader) = [i \in 1..Len(vanbinds) |-> vanbinds[i][1]]
          /\ \A i, j \in hp : out[i] = out[j] => i = j
          /\ out # <<>> => IsHeader(out[1])
          /\ \A i \in hp :
                SubSeq(out, i + 1, NextHeader(out, i) - 1) =
                    IF OdHas(cfg, out[i]) THEN OdGet(cfg, out[i])
                    ELSE OdGet(vanbinds, out[i])
          /\ \A h \in OdKeys(cfg) \ OdKeys(vanbinds) :
                \A i \in 1..Len(out) : out[i] # h
          /\ (/\ vanbinds = <<<<"[BIND:A]", <<"k1">>>>, <<"[BIND:B]", <<"k2">>>>>>
              /\ cfg = <<<<"[BIND:A]", <<"k3">>>>>>)
                => out = <<"[BIND:A]", "k3", "[BIND:B]", "k2">>
          /\ kbOut = <<"">> \o out

C3_Witness ==
    /\ kpc = "done"
    /\ vanbinds = <<<<"[BIND:A]", <<"k1">>>>, <<"[BIND:B]", <<"k2">>>>>>
    /\ cfg = <<<<"[BIND:A]", <<"k3">>>>>>
    /\ kbLines = <<"[BIND:A]", "k3", "[BIND:B]", "k2">>

\* The header lines of a file in first-seen order, each once.
RECURSIVE FirstSeen(_, _)
FirstSeen(lines, i) ==
    IF i = 0 THEN <<>>
    ELSE LET before == FirstSeen(lines, i - 1)
         IN  IF IsHeader(lines[i]) /\ \A j \in 1..(i - 1) : lines[j] # lines[i]
             THEN Append(before, lines[i])
             ELSE before

LastPosition(lines, h) ==
    CHOOSE i \in 1..Len(lines) :
        lines[i] = h /\ \A j \in 1..Len(lines) : lines[j] = h => j <= i

\* The lines that follow any occurrence of header h, in file order.
RECURSIVE AfterAny(_, _, _)
AfterAny(lines, h, i) ==
    IF i > Len(lines) THEN <<>>
    ELSE (IF lines[i] = h THEN BlockAfter(lines, i) ELSE <<>>)
            \o AfterAny(lines, h, i + 1)

ParsedAsStated(lines, od) ==
    /\ [i \in 1..Len(od) |-> od[i][1]] = FirstSeen(lines, Len(lines))
    /\ \A i \in 1..Len(od) : od[i][2] = AfterAny(lines, od[i][1], 1)

ParsedLastWins(lines, od) ==
    /\ [i \in 1..Len(od) |-> od[i][1]] = FirstSeen(lines, Len(lines))
    /\ \A i \in 1..Len(od) :
          od[i][2] = BlockAfter(lines, LastPosition(lines, od[i][1]))

\* C4 as stated: the parser maps each header, in first-seen order, to all
\* the non-header lines that follow any occurrence of it: the lines after
\* a later occurrence are appended to those already collected.
C4_RepeatedHeaderAppends ==
    /\ kpc \in {"profiles", "done"} => ParsedAsStated(vanFile, vanbinds)
    /\ kpc = "done" => ParsedAsStated(cfgFile, cfg)

\* C4 as amended: the parser maps each header, in first-seen order, to the
\* non-blank non-header lines that follow its LAST occurrence, up to the
\* next header: a later occurrence of a header empties the list collected
\* for it, so the lines after its earlier occurrences are dropped.
C4_RepeatedHeaderResets ==
    /\ kpc \in {"profiles", "done"} => ParsedLastWins(vanFile, vanbinds)
    /\ kpc = "done" => ParsedLastWins(cfgFile, cfg)

C4_Witness ==
    /\ kpc = "profiles"
    /\ vanFile = <<"[BIND:A]", "k1", "[BIND:A]", "k2">>
    /\ vanbinds = <<<<"[BIND:A]", <<"k2">>>>>>

\* --------------------------------------------------------------- _contents
\* The template is a sequence of tokens: the braces and the names "a" and
\* "b", which as text between braces are the keys of kwargs.
Keys == {"a", "b"}
TemplateTokens == {"{", "}"} \cup Keys
KwargsOrders == {<<"a">>, <<"b">>, <<"a", "b">>, <<"b", "a">>}

\* The value kwargs holds for a key.
ValueOf(k) == IF k = "a" THEN "value-a" ELSE "value-b"

AbsentFile == <<"absent">>
TextFile(text) == <<"text", text>>

\* '{' + item + '}' in template
HasPlaceholder(tpl, item) ==
    \E i \in 1..(Len(tpl) - 2) :
        tpl[i] = "{" /\ tpl[i + 1] = item /\ tpl[i + 2] = "}"

\* The first item of the loop over kwargs that the template does not list.
RECURSIVE FirstUnlisted(_, _, _)
FirstUnlisted(kw, tpl, i) ==
    IF i > Len(kw) THEN None
    ELSE IF ~HasPlaceholder(tpl, kw[i]) THEN kw[i]
    ELSE FirstUnlisted(kw, tpl, i + 1)

FormatError == <<"error">>

\* template.format(**kwargs) from token i on: "{{" and "}}" are the
\* braces themselves, "{name}" is the value of name, and a lone "}", an
\* unclosed "{", a "{" inside a field, an empty field (a positional index
\* with no positional argument) and a name kwargs lacks all raise.
RECURSIVE FormatFrom(_, _, _)
FormatFrom(tpl, kw, i) ==
    IF i > Len(tpl) THEN <<"ok", <<>>>>
    ELSE LET rest(j, item) ==
                 LET r == FormatFrom(tpl, kw, j)
                 IN  IF r = FormatError THEN FormatError
                     ELSE <<"ok", <<item>> \o r[2]>>
             closers == {j \in (i + 1)..Len(tpl) : tpl[j] = "}"}
             close == CHOOSE j \in closers : \A m \in closers : j <= m
         IN  IF tpl[i] = "{"
             THEN IF i < Len(tpl) /\ tpl[i + 1] = "{" THEN rest(i + 2, "{")
                  ELSE IF closers = {} THEN FormatError
                  ELSE IF close # i + 2 THEN FormatError
                  ELSE IF \A n \in 1..Len(kw) : kw[n] # tpl[i + 1] THEN FormatError
                  ELSE rest(i + 3, ValueOf(tpl[i + 1]))
             ELSE IF tpl[i] = "}"
             THEN IF i < Len(tpl) /\ tpl[i + 1] = "}" THEN rest(i + 2, "}")
                  ELSE FormatError
             ELSE rest(i + 1, tpl[i])

\* The call, as [pc, err, file]: the check of every item, then the open of
\* the output file for writing, then the format and the write.
ContentsOpensFirst(kw, tpl, old) ==
    LET item == FirstUnlisted(kw, tpl, 1)
        out == FormatFrom(tpl, kw, 1)
    IN  IF item # None
        THEN [pc |-> "error", err |-> item, file |-> TextFile(<<>>)]
        ELSE IF out = FormatError
        THEN [pc |-> "error", err |-> None, file |-> TextFile(<<>>)]
        ELSE [pc |-> "done", err |-> None, file |-> TextFile(out[2])]
ContentsCall(kw, tpl, old) ==
    LET item == FirstUnlisted(kw, tpl, 1)
        out == FormatFrom(tpl, kw, 1)
    IN  IF item # None
        THEN [pc |-> "error", err |-> item, file |-> old]
        ELSE IF out = FormatError
        THEN [pc |-> "error", err |-> None, file |-> TextFile(<<>>)]
        ELSE [pc |-> "done", err |-> None, file |-> TextFile(out[2])]

InitCont ==
    /\ kwargs \in KwargsOrders
    /\ template \in SeqsUpTo(TemplateTokens, MaxTemplate)
    /\ cfile0 \in {AbsentFile, TextFile(<<"old">>)}
    /\ cfile = cfile0
    /\ cerr = None
    /\ cpc = "start"
    /\ IdleUnzip /\ IdleKeys /\ IdleMerge /\ IdleSimp /\ IdleBuild

\* An item without a placeholder: ValueError before the file is opened.
ContentsRefuse ==
    /\ cpc = "start"
    /\ FirstUnlisted(kwargs, template, 1) # None
    /\ LET r == ContentsCall(kwargs, template, cfile)
       IN  cpc' = r.pc /\ cerr' = r.err /\ cfile' = r.file
    /\ UNCHANGED <<kwargs, template, cfile0>>
    /\ UNCHANGED contOthers

\* Every item has a placeholder: the file is opened, then filled.
ContentsWrite ==
    /\ cpc = "start"
    /\ FirstUnlisted(kwargs, template, 1) = None
    /\ LET r == ContentsCall(kwargs, template, cfile)
       IN  cpc' = r.pc /\ cerr' = r.err /\ cfile' = r.file
    /\ UNCHANGED <<kwargs, template, cfile0>>
    /\ UNCHANGED contOthers

NextCont ==
    \/ ContentsRefuse
    \/ ContentsWrite

SpecCont == InitCont /\ [][NextCont]_vars

\* ------------------------------------------------------ _contents: claims
KeysOf(kw) == {kw[i] : i \in 1..Len(kw)}

\* The template text has the three tokens "{", K, "}" in a row nowhere.
NoPlaceholder(tpl, K) ==
    \A i \in 1..Len(tpl) :
        ~(i + 2 <= Len(tpl) /\ <<tpl[i], tpl[i + 1], tpl[i + 2]>> = <<"{", K, "}">>)

MNames == {"a", "b"}

\* The content of every file below src, and of every file below dest
\* before the call.
SrcContent == 1
DestContent == 2

\* The trees of at most n entries whose files all hold content c.
RECURSIVE TreesUpTo(_, _)
TreesUpTo(n, c) ==
    IF n = 0 THEN {EmptyTree}
    ELSE LET prev == TreesUpTo(n - 1, c)
             grow(t) ==
                 {[q \in DOMAIN t \cup {Append(d, x)} |->
                      IF q \in DOMAIN t THEN t[q] ELSE node] :
                  d \in {e \in DOMAIN t \cup {<<>>} : IsDir(t, e)},
                  x \in MNames,
                  node \in {DirNode, FileNode(c)}}
         IN  prev \cup UNION {grow(t) : t \in prev}

\* os.listdir(src) for the directory at p: the names in it, in some order.
Children(t, p) == {q \in DOMAIN t : Len(q) = Len(p) + 1 /\ Front(q) = p}
Orders(S) ==
    {o \in [1..Cardinality(S) -> S] : \A i, j \in 1..Cardinality(S) :
        o[i] = o[j] => i = j}

\* if not os.path.isdir(dest): os.makedirs(dest)
EnsureDirFresh(t, p) ==
    LET kept == {q \in DOMAIN t : ~(Len(q) > Len(p) /\ SubSeq(q, 1, Len(p)) = p)}
    IN  [q \in kept \cup Prefixes(p) |-> IF q \in kept /\ q # p THEN t[q] ELSE DirNode]
EnsureDir(t, p) == IF IsDir(t, p) THEN t ELSE Makedirs(t, p)

InitMerge ==
    /\ msrc \in TreesUpTo(MaxTreeNodes, SrcContent)
    /\ mdest \in TreesUpTo(MaxTreeNodes, DestContent)
    /\ mdest0 = mdest
    /\ mstack = <<<<>>>>
    /\ mpc = "run"
    /\ IdleUnzip /\ IdleKeys /\ IdleCont /\ IdleSimp /\ IdleBuild

\* The call for a directory of src: dest gets the directory unless a file
\* is in its place (os.makedirs raises), then one call per name listed.
MergeDir ==
    /\ mpc = "run"
    /\ mstack # <<>>
    /\ LET p == Head(mstack)
       IN  /\ IsDir(msrc, p)
           /\ IF IsFileAt(mdest, p)
              THEN mdest' = mdest /\ mstack' = mstack /\ mpc' = "error"
              ELSE /\ mdest' = EnsureDir(mdest, p)
                   /\ \E o \in Orders(Children(msrc, p)) :
                         mstack' = o \o Tail(mstack)
                   /\ mpc' = mpc
    /\ UNCHANGED <<msrc, mdest0>>
    /\ UNCHANGED mergeOthers

\* The call for a file of src: shutil.copy into the directory of dest,
\* which raises when dest has a directory under the file's name.
MergeFile ==
    /\ mpc = "run"
    /\ mstack # <<>>
    /\ LET p == Head(mstack)
       IN  /\ ~IsDir(msrc, p)
           /\ IF IsDir(mdest, p)
              THEN mdest' = mdest /\ mstack' = mstack /\ mpc' = "error"
              ELSE /\ mdest' = PutFile(mdest, p, msrc[p][2])
                   /\ mstack' = Tail(mstack)
                   /\ mpc' = mpc
    /\ UNCHANGED <<msrc, mdest0>>
    /\ UNCHANGED mergeOthers

MergeReturn ==
    /\ mpc = "run"
    /\ mstack = <<>>
    /\ mpc' = "done"
    /\ UNCHANGED <<msrc, mdest, mdest0, mstack>>
    /\ UNCHANGED mergeOthers

NextMerge ==
    \/ MergeDir
    \/ MergeFile
    \/ MergeReturn

SpecMerge == InitMerge /\ [][NextMerge]_vars

\* -------------------------------------------------- overwrite_dir: claims
\* C6: at every point of the call, and so after it whether it returned or
\* raised part-way, every entry dest had at a relative path that src does
\* not have is still there, a directory still a directory and a file with
\* the content it had.
C6_DestOnlyEntriesKept ==
    \A p \in DOMAIN mdest0 :
        p \notin DOMAIN msrc => (p \in DOMAIN mdest /\ mdest[p] = mdest0[p])

\* The call raised on a file-versus-directory conflict after it had
\* already overwritten a file of dest, and dest has a file src lacks.
C6_Witness ==
    /\ mpc = "error"
    /\ \E p \in DOMAIN mdest0 : p \notin DOMAIN msrc /\ mdest0[p] = FileNode(DestContent)
    /\ \E p \in DOMAIN mdest : mdest[p] = FileNode(SrcContent)

\* ---------------------------------------------------------- rough_simplify
Manifest == "manifest.json"
KeptDirs == {"data", "raw"}

\* The names a pack directory may hold at its top level: the three the
\* code names and NumOther more.
OtherPool == <<"readme.txt", "hack", "libs">>
TopNames == {Manifest} \cup KeptDirs \cup {OtherPool[i] : i \in 1..NumOther}

\* What may be under one top-level name: nothing, a file, an empty
\* directory, or a directory that holds a file.
TopChoices(n) ==
    { EmptyTree,
      [q \in {<<n>>} |-> FileNode(0)],
      [q \in {<<n>>} |-> DirNode],
      [q \in {<<n>>, <<n, "f">>} |-> IF q = <<n>> THEN DirNode ELSE FileNode(0)] }

\* The union of trees over disjoint sets of paths.
Join(t, u) == [q \in DOMAIN t \cup DOMAIN u |-> IF q \in DOMAIN t THEN t[q] ELSE u[q]]

RECURSIVE PackDirs(_)
PackDirs(names) ==
    IF names = {} THEN {EmptyTree}
    ELSE LET n == CHOOSE x \in names : TRUE
         IN  {Join(t, u) : t \in TopChoices(n), u \in PackDirs(names \ {n})}

\* os.remove of a file, shutil.rmtree of a directory: the entry at p and
\* everything below it goes.
RemoveAt(t, p) ==
    [q \in {r \in DOMAIN t : ~IsPathPrefix(p, r)} |-> t[q]]

\* Whether the loop body deletes the entry named fname.
SimplifyDeletesByName(t, fname) == fname \notin ({Manifest} \cup KeptDirs)
SimplifyDeletes(t, fname) ==
    IF IsFileAt(t, <<fname>>)
    THEN fname # Manifest
    ELSE fname \notin KeptDirs

InitSimp ==
    /\ sdir \in PackDirs(TopNames)
    /\ sdir0 = sdir
    /\ spending = {}
    /\ spc = "start"
    /\ IdleUnzip /\ IdleKeys /\ IdleCont /\ IdleMerge /\ IdleBuild

\* os.listdir(df_dir)
SimplifyList ==
    /\ spc = "start"
    /\ spending' = {q[1] : q \in Children(sdir, <<>>)}
    /\ spc' = "loop"
    /\ UNCHANGED <<sdir, sdir0>>
    /\ UNCHANGED simpOthers

\* One iteration of the loop, for the names in whatever order they list.
SimplifyVisit ==
    /\ spc = "loop"
    /\ \E fname \in spending :
          /\ sdir' = IF SimplifyDeletes(sdir, fname)
                     THEN RemoveAt(sdir, <<fname>>)
                     ELSE sdir
          /\ spending' = spending \ {fname}
    /\ UNCHANGED <<sdir0, spc>>
    /\ UNCHANGED simpOthers

SimplifyReturn ==
    /\ spc = "loop"
    /\ spending = {}
    /\ spc' = "done"
    /\ UNCHANGED <<sdir, sdir0, spending>>
    /\ UNCHANGED simpOthers

NextSimp ==
    \/ SimplifyList
    \/ SimplifyVisit
    \/ SimplifyReturn

SpecSimp == InitSimp /\ [][NextSimp]_vars

BuildStepsSwapped ==
    << "wipe", "create_df_dir", "create_baselines", "install_lnp_dirs",
       "create_graphics", "create_utilities", "merge_phoebus", "setup_pylnp",
       "create_about", "make_defaults", "make_keybindings" >>
BuildSteps ==
    << "wipe", "create_df_dir", "create_baselines", "install_lnp_dirs",
       "create_utilities", "create_graphics", "merge_phoebus", "setup_pylnp",
       "create_about", "make_defaults", "make_keybindings" >>

\* The areas of build/: the Dwarf Fortress directory, the subdirectories
\* of LNP, the launcher with its PyLNP.json, and whatever else is there.
Areas ==
    { "df", "baselines", "lnpdirs", "utilities", "graphics", "launcher",
      "about", "defaults", "keybindings", "leftover" }

\* The areas a step writes into.
Writes(step) ==
    CASE step = "create_df_dir" -> {"df"}
      [] step = "create_baselines" -> {"baselines"}
      [] step = "install_lnp_dirs" -> {"lnpdirs", "df"}
      [] step = "create_utilities" -> {"utilities"}
      [] step = "create_graphics" -> {"graphics"}
      [] step = "merge_phoebus" -> {"df"}
      [] step = "setup_pylnp" -> {"launcher", "df"}
      [] step = "create_about" -> {"about"}
      [] step = "make_defaults" -> {"defaults", "df"}
      [] step = "make_keybindings" -> {"keybindings"}
      [] OTHER -> {}

\* The areas a step reads files from, which raise when they are missing.
Requires(step) ==
    CASE step = "install_lnp_dirs" -> {"baselines"}
      [] step = "create_graphics" -> {"lnpdirs"}
      [] step = "merge_phoebus" -> {"graphics"}
      [] step = "make_defaults" -> {"lnpdirs", "graphics"}
      [] step = "make_keybindings" -> {"df"}
      [] OTHER -> {}

\* The areas a step creates with shutil.copytree or os.makedirs, which
\* raise when the directory is already there.
Fresh(step) ==
    CASE step = "install_lnp_dirs" -> {"lnpdirs"}
      [] step = "make_defaults" -> {"defaults"}
      [] step = "make_keybindings" -> {"keybindings"}
      [] OTHER -> {}

\* What a step leaves in an area: its name, whether it got through, and
\* the date it wrote (create_about heads the changelog with today's date).
Stamp(step, how, d) == <<step, how, IF step = "create_about" THEN d ELSE 0>>

StampAll(t, areas, s) ==
    [a \in Areas |-> IF a \in areas THEN Append(t[a], s) ELSE t[a]]

\* if os.path.isdir('build'): shutil.rmtree('build')
WipeSkipped(t) == t
Wipe(t) == [a \in Areas |-> <<>>]

\* One step on tree t on day d; bad says the step's input makes it raise.
StepResult(step, t, d, bad) ==
    IF step = "wipe" THEN [ok |-> TRUE, tree |-> Wipe(t)]
    ELSE IF \/ \E a \in Requires(step) : t[a] = <<>>
            \/ \E a \in Fresh(step) : t[a] # <<>>
    THEN [ok |-> FALSE, tree |-> t]
    ELSE IF bad
    THEN [ok |-> FALSE, tree |-> StampAll(t, Writes(step), Stamp(step, "partial", d))]
    ELSE [ok |-> TRUE, tree |-> StampAll(t, Writes(step), Stamp(step, "whole", d))]

NoBuild == [a \in Areas |-> <<>>]

\* build/ before the first run: absent, holding something foreign, or
\* holding the tree an earlier build left.
StartTrees ==
    { NoBuild,
      [NoBuild EXCEPT !["leftover"] = <<<<"junk", "whole", 0>>>>],
      [a \in Areas |-> IF a = "leftover" THEN <<>> ELSE <<<<"old", "whole", 0>>>>] }

InitBuild ==
    /\ tree \in StartTrees
    /\ tree0 = tree
    /\ tree1 = NoBuild
    /\ day = 1
    /\ aday = 0
    /\ aday1 = 0
    /\ failAt \in {0} \cup 2..Len(BuildSteps)
    /\ bpc = 1
    /\ started = <<>>
    /\ bstatus = "running"
    /\ run = 1
    /\ IdleUnzip /\ IdleKeys /\ IdleCont /\ IdleMerge /\ IdleSimp

\* The next statement of build_all: the step starts, and either completes
\* or raises, which ends build_all.
BuildStep ==
    /\ bstatus = "running"
    /\ bpc <= Len(BuildSteps)
    /\ LET step == BuildSteps[bpc]
           r == StepResult(step, tree, day, bpc = failAt)
       IN  /\ started' = Append(started, step)
           /\ tree' = r.tree
           /\ aday' = IF step = "create_about" /\ r.tree # tree THEN day ELSE aday
           /\ IF r.ok
              THEN bpc' = bpc + 1 /\ bstatus' = bstatus
              ELSE bpc' = bpc /\ bstatus' = "aborted"
    /\ UNCHANGED <<tree0, tree1, day, aday1, failAt, run>>
    /\ UNCHANGED buildOthers

BuildReturn ==
    /\ bstatus = "running"
    /\ bpc > Len(BuildSteps)
    /\ bstatus' = "done"
    /\ UNCHANGED <<tree, tree0, tree1, day, aday, aday1, failAt, bpc, started, run>>
    /\ UNCHANGED buildOthers

\* build_all is called again, with the same catalog, archives and templates.
BuildAgain ==
    /\ bstatus \in {"done", "aborted"}
    /\ run < MaxRuns
    /\ run' = run + 1
    /\ tree1' = tree
    /\ aday1' = aday
    /\ aday' = 0
    /\ bpc' = 1
    /\ started' = <<>>
    /\ bstatus' = "running"
    /\ UNCHANGED <<tree, tree0, day, failAt>>
    /\ UNCHANGED buildOthers

\* Midnight passes.
NextDay ==
    /\ day < MaxDay
    /\ day' = day + 1
    /\ UNCHANGED <<tree, tree0, tree1, aday, aday1, failAt, bpc, started, bstatus, run>>
    /\ UNCHANGED buildOthers

NextBuild ==
    \/ BuildStep
    \/ BuildReturn
    \/ BuildAgain
    \/ NextDay

SpecBuild == InitBuild /\ [][NextBuild]_vars

\* ------------------------------------------------------ build_all: claims
RunEnded == bstatus \in {"done", "aborted"}

\* C8 as stated: a second run against unchanged inputs leaves the tree
\* the first run left.
C8_SecondRunIdentical ==
    (run >= 2 /\ bstatus = "done") => tree = tree1

\* C8 as amended: a run after an earlier run against unchanged inputs
\* leaves the tree the earlier run left in every area but about/, and in
\* about/ too when create_about read the same date in both runs; nothing
\* build/ held before a run is in the tree the run leaves.
C8_SecondRunIdenticalSameDate ==
    /\ (run >= 2 /\ RunEnded) =>
          /\ \A a \in Areas \ {"about"} : tree[a] = tree1[a]
          /\ aday = aday1 => tree = tree1
    /\ RunEnded =>
          /\ tree["leftover"] = <<>>
          /\ \A a \in Areas : \A i \in 1..Len(tree[a]) :
                \E j \in 1..Len(started) : started[j] = tree[a][i][1]

C8_Witness ==
    /\ run = 2
    /\ bstatus = "done"
    /\ tree0["leftover"] # <<>>
    /\ aday = aday1
    /\ tree["about"] = <<<<"create_about", "whole", aday>>>>
    /\ tree = tree1

\* The order C9 states.
StatedOrder ==
    << "wipe", "create_df_dir", "create_baselines", "install_lnp_dirs",
       "create_utilities", "create_graphics", "merge_phoebus", "setup_pylnp",
       "create_about", "make_defaults", "make_keybindings" >>

\* C9: in every run the steps start in the one stated order; a step
\* starts only in a running build_all in which every earlier step has
\* completed; a step that raises ends the run aborted with no later step
\* started; and an aborted run starts no step and changes nothing more.
C9_FixedOrderFailFast ==
    /\ [](/\ Len(started) <= Len(StatedOrder)
          /\ started = SubSeq(StatedOrder, 1, Len(started))
          /\ bstatus = "running" => bpc = Len(started) + 1
          /\ bstatus = "aborted" => bpc = Len(started)
          /\ bstatus = "done" => started = StatedOrder /\ failAt = 0
          /\ (failAt # 0 /\ Len(started) >= failAt)
                => bstatus = "aborted" /\ Len(started) = failAt)
    /\ [][(started' # started /\ run' = run)
            => /\ bstatus = "running"
               /\ bpc = Len(started) + 1
               /\ started' = Append(started, StatedOrder[bpc])]_vars
    /\ [][(bstatus = "aborted" /\ run' = run)
            => /\ bstatus' = "aborted"
               /\ started' = started
               /\ tree' = tree]_vars

C9_Witness ==
    /\ bstatus = "aborted"
    /\ failAt = 6
    /\ started = SubSeq(StatedOrder, 1, 6)
    /\ tree["graphics"] # <<>>
    /\ tree["launcher"] = <<>>

====
